---- MODULE Spec2Model ----
(***************************************************************************)
(* WhatsAppService (src/unnamed/part_000, lines 194-809): the session      *)
(* lifecycle state machine, its timers, the status observers and the       *)
(* outbound send operations.                                               *)
(*                                                                         *)
(* Every handler of the service runs to its first await as one step; a     *)
(* continuation after an await (client.initialize(), client.destroy()) is  *)
(* a step of its own.  The underlying client, the timers and the callers   *)
(* are the environment: they choose which event, timer or call comes next. *)
(***************************************************************************)
EXTENDS Naturals, Sequences, FiniteSets

\* ------------------------------------------------------------------ bounds

\* initialize() calls that create a Client (attempts) in one behaviour
MaxAttempts == 2
\* 5 s reconnect timers pending at once
MaxReconnectTimers == 2
\* registered status observers
MaxObservers == 2

Attempts == 1..MaxAttempts

\* the `vote_update` events of one behaviour
VoteEvents == {"v1", "v2"}

\* ------------------------------------------------------------- value sets

DISCONNECTED == "DISCONNECTED"
CONNECTING == "CONNECTING"
CONNECTED == "CONNECTED"
QR_READY == "QR_READY"
AUTHENTICATED == "AUTHENTICATED"

WhatsAppStatus == {DISCONNECTED, CONNECTING, CONNECTED, QR_READY, AUTHENTICATED}

\* payloads of `qr` events
QrPayloads == {"qrA", "qrB"}
\* reasons of `disconnected` events, messages of `auth_failure` events
Reasons == {"LOGOUT"}
\* a status observer either returns or throws when it is invoked
ObserverKinds == {"returns", "throws"}

\* JavaScript's undefined, for an absent value
Undefined == "undefined"

NoData == [kind |-> "none", val |-> Undefined]
QrData(qr) == [kind |-> "qr", val |-> qr]
ErrorData(msg) == [kind |-> "error", val |-> msg]
ReasonData(reason) == [kind |-> "reason", val |-> reason]

NoResult == [kind |-> "none"]

VARIABLES
    status,                 \* this.status
    qrCode,                 \* this.qrCode
    statusCallbacks,        \* this.statusCallbacks: the observers, in registration order
    initializationTimeout,  \* this.initializationTimeout: 0 (undefined) or the timer of attempt a
    client,                 \* this.client: 0 (undefined) or the Client of attempt a
    initTimer,              \* per attempt, its 60 s timer: none, pending, cancelled, fired, lapsed
    clients,                \* per attempt, the Client it created (see ClientStates)
    reconnectTimers,        \* number of pending 5 s reconnect timers
    nAttempts,              \* initialize() calls that created a Client so far
    booted,                 \* onModuleInit has run
    awaiting,               \* the awaited client.destroy() call: [op, c], op "none" when there is none
    readySeen,              \* attempts whose `ready` event was handled (kept by ReadyWatched only)
    lastQr,                 \* payload of the most recently handled `qr` event
    terminal,               \* disconnect() has returned and reinitialize() was not called since
    votes,                  \* per vote event, how far its handler has come (see Idle)
    last                    \* what the handler that ran last did

vars == <<status, qrCode, statusCallbacks, initializationTimeout, client, initTimer,
          clients, reconnectTimers, nAttempts, booted, awaiting, readySeen, lastQr,
          terminal, votes, last>>

\* A Client of the underlying library, as the service sees it:
\*   none      not created
\*   starting  created with the handlers attached, client.initialize() pending
\*   started   client.initialize() has returned
\*   closing   destroy() succeeded while client.initialize() was pending:
\*             no event comes any more, the pending call can only throw
\*   dead      client.initialize() threw, or destroy() succeeded after it settled
ClientStates == {"none", "starting", "started", "closing", "dead"}

\* client.destroy() succeeded on a Client in state s
Destroyed(s) == IF s = "starting" THEN "closing" ELSE IF s = "started" THEN "dead" ELSE s

NotAwaiting == [op |-> "none", c |-> 0]

\* a vote event that has not been emitted yet
Idle ==
    [pc |-> "idle", in |-> [selected |-> Undefined, parent |-> <<>>],
     body |-> [kind |-> "nobody"], selectedOptionId |-> 0, calls |-> <<>>,
     answers |-> <<>>, outcome |-> Undefined]

\* ------------------------------------------------------------ observers

\* index of the first observer that throws, 0 when none does
FirstThrower(cbs) ==
    IF \E i \in 1..Len(cbs) : cbs[i] = "throws"
    THEN CHOOSE i \in 1..Len(cbs) :
            /\ cbs[i] = "throws"
            /\ \A j \in 1..(i - 1) : cbs[j] # "throws"
    ELSE 0

\* notifyStatusChange: statusCallbacks.forEach(callback => callback(status, data)).
\* forEach stops at the first callback that throws and the exception leaves
\* notifyStatusChange.  notes: the invocations made, in order.
NotifyStatusChange(cbs, st, data) ==
    LET k == FirstThrower(cbs)
        n == IF k = 0 THEN Len(cbs) ELSE k
    IN [notes |-> [i \in 1..n |-> [cb |-> i, status |-> st, data |-> data]],
        threw |-> k # 0]

\* ---------------------------------------------------------------- timers

\* clearTimeout(handle): a pending timer is cancelled, any other is left alone
ClearTimeout(timers, handle) ==
    IF handle # 0 /\ timers[handle] = "pending"
    THEN [timers EXCEPT ![handle] = "cancelled"]
    ELSE timers

PendingInitTimers == {a \in Attempts : initTimer[a] = "pending"}

\* initialize() arming a new timeout without clearing the one armed before
InitializeKeepsPrevious(timers, handle) == timers

\* initialize(), lines 229-231: the previously armed timeout is cleared
InitializeClearsPrevious(timers, handle) ==
    IF handle # 0 THEN ClearTimeout(timers, handle) ELSE timers

\* -------------------------------------------------------------- the record

\* what a handler did that the state does not keep: the observer invocations
\* it made, whether an exception left it, the calls it made on the underlying
\* client and what it returned
Did(op, notes, threw, calls, result) ==
    [op |-> op, notes |-> notes, threw |-> threw, calls |-> calls, result |-> result]

\* ------------------------------------------------------------------- Init

Init ==
    /\ status = DISCONNECTED
    /\ qrCode = ""
    /\ statusCallbacks = <<>>
    /\ initializationTimeout = 0
    /\ client = 0
    /\ initTimer = [a \in Attempts |-> "none"]
    /\ clients = [a \in Attempts |-> "none"]
    /\ reconnectTimers = 0
    /\ nAttempts = 0
    /\ booted = FALSE
    /\ awaiting = NotAwaiting
    /\ readySeen = {}
    /\ lastQr = Undefined
    /\ terminal = FALSE
    /\ votes = [e \in VoteEvents |-> Idle]
    /\ last = Did("new", <<>>, FALSE, <<>>, NoResult)

\* --------------------------------------------------------- initialize()

\* initialize() up to its await of client.initialize() (lines 223-275), and
\* its catch block (lines 279-287) when a statement before the await throws.
\* op: the caller; calls: the client calls the caller made before; cs: the
\* Clients as the caller leaves them.
Initialize(op, calls, cs) ==
    LET n1 == NotifyStatusChange(statusCallbacks, CONNECTING, NoData)
        n2 == NotifyStatusChange(statusCallbacks, DISCONNECTED, ErrorData("observer"))
        a == nAttempts + 1
        cleared == InitializeClearsPrevious(initTimer, initializationTimeout)
    IN /\ nAttempts < MaxAttempts
       /\ IF n1.threw
          THEN \* catch: status = DISCONNECTED; notify; the clearTimeout that
               \* follows is skipped when the notification throws again
               /\ status' = DISCONNECTED
               /\ initTimer' = IF n2.threw THEN initTimer
                               ELSE ClearTimeout(initTimer, initializationTimeout)
               /\ last' = Did(op, n1.notes \o n2.notes, n2.threw, calls, NoResult)
               /\ clients' = cs
               /\ UNCHANGED <<initializationTimeout, client, nAttempts>>
          ELSE /\ status' = CONNECTING
               /\ initTimer' = [cleared EXCEPT ![a] = "pending"]
               /\ initializationTimeout' = a
               /\ client' = a
               /\ clients' = [cs EXCEPT ![a] = "starting"]
               /\ nAttempts' = a
               /\ last' = Did(op, n1.notes, FALSE, calls \o <<"initialize">>, NoResult)

\* onModuleInit (lines 217-221)
OnModuleInit ==
    /\ ~booted
    /\ booted' = TRUE
    /\ Initialize("onModuleInit", <<>>, clients)
    /\ UNCHANGED <<qrCode, statusCallbacks, reconnectTimers, awaiting,
                   readySeen, lastQr, terminal, votes>>

\* await client.initialize() returns (line 275), then line 277: the timeout
\* that this.initializationTimeout names now is cleared
StartupResolves(a) ==
    /\ clients[a] = "starting"
    /\ clients' = [clients EXCEPT ![a] = "started"]
    /\ initTimer' = ClearTimeout(initTimer, initializationTimeout)
    /\ last' = Did("startupResolved", <<>>, FALSE, <<>>, NoResult)
    /\ UNCHANGED <<status, qrCode, statusCallbacks, initializationTimeout, client,
                   reconnectTimers, nAttempts, booted, awaiting, readySeen,
                   lastQr, terminal, votes>>

\* await client.initialize() throws (line 275), then the catch block, lines 279-287
StartupFails(a) ==
    LET n == NotifyStatusChange(statusCallbacks, DISCONNECTED, ErrorData("startup"))
    IN /\ clients[a] \in {"starting", "closing"}
       /\ clients' = [clients EXCEPT ![a] = "dead"]
       /\ status' = DISCONNECTED
       /\ initTimer' = IF n.threw THEN initTimer
                       ELSE ClearTimeout(initTimer, initializationTimeout)
       /\ last' = Did("startupFailed", n.notes, n.threw, <<>>, NoResult)
       /\ UNCHANGED <<qrCode, statusCallbacks, initializationTimeout, client,
                      reconnectTimers, nAttempts, booted, awaiting, readySeen,
                      lastQr, terminal, votes>>

\* the 60 s of attempt a's timer elapse while it is pending: its callback runs
\* (lines 233-237)
InitializationTimeoutFires(a) ==
    LET n == NotifyStatusChange(statusCallbacks, DISCONNECTED,
                                ErrorData("Initialization timeout"))
    IN /\ initTimer[a] = "pending"
       /\ initTimer' = [initTimer EXCEPT ![a] = "fired"]
       /\ status' = DISCONNECTED
       /\ last' = Did("timeout", n.notes, n.threw, <<>>, NoResult)
       /\ UNCHANGED <<qrCode, statusCallbacks, initializationTimeout, client, clients,
                      reconnectTimers, nAttempts, booted, awaiting, readySeen,
                      lastQr, terminal, votes>>

\* the 60 s of attempt a's timer elapse after clearTimeout: no callback runs
InitializationTimeoutLapses(a) ==
    /\ initTimer[a] = "cancelled"
    /\ initTimer' = [initTimer EXCEPT ![a] = "lapsed"]
    /\ last' = Did("timeoutLapsed", <<>>, FALSE, <<>>, NoResult)
    /\ UNCHANGED <<status, qrCode, statusCallbacks, initializationTimeout, client,
                   clients, reconnectTimers, nAttempts, booted, awaiting, readySeen,
                   lastQr, terminal, votes>>

\* ------------------------------------------------------- event handlers

\* a Client whose handlers are attached (line 272) and that can still emit events
Live(c) == clients[c] \in {"starting", "started"}

\* client.on('qr') (lines 291-301)
Qr(c, qr) ==
    LET n == NotifyStatusChange(statusCallbacks, QR_READY, QrData(qr))
    IN /\ Live(c)
       /\ qrCode' = qr
       /\ lastQr' = qr
       /\ status' = QR_READY
       /\ last' = Did("qr", n.notes, n.threw, <<>>, NoResult)
       /\ UNCHANGED <<statusCallbacks, initializationTimeout, client, initTimer,
                      clients, reconnectTimers, nAttempts, booted, awaiting,
                      readySeen, terminal, votes>>

\* client.on('authenticated') (lines 303-307)
Authenticated(c) ==
    LET n == NotifyStatusChange(statusCallbacks, AUTHENTICATED, NoData)
    IN /\ Live(c)
       /\ status' = AUTHENTICATED
       /\ last' = Did("authenticated", n.notes, n.threw, <<>>, NoResult)
       /\ UNCHANGED <<qrCode, statusCallbacks, initializationTimeout, client,
                      initTimer, clients, reconnectTimers, nAttempts, booted,
                      awaiting, readySeen, lastQr, terminal, votes>>

\* an auth_failure handler that schedules a reconnection as the disconnected
\* handler does
AuthFailureReconnects(c, msg) ==
    LET n == NotifyStatusChange(statusCallbacks, DISCONNECTED, ErrorData(msg))
    IN /\ Live(c)
       /\ reconnectTimers < MaxReconnectTimers
       /\ status' = DISCONNECTED
       /\ reconnectTimers' = reconnectTimers + 1
       /\ last' = Did("auth_failure", n.notes, n.threw, <<>>, NoResult)
       /\ UNCHANGED <<qrCode, statusCallbacks, initializationTimeout, client,
                      initTimer, clients, nAttempts, booted, awaiting,
                      readySeen, lastQr, terminal, votes>>

\* client.on('auth_failure') (lines 309-313)
AuthFailure(c, msg) ==
    LET n == NotifyStatusChange(statusCallbacks, DISCONNECTED, ErrorData(msg))
    IN /\ Live(c)
       /\ status' = DISCONNECTED
       /\ last' = Did("auth_failure", n.notes, n.threw, <<>>, NoResult)
       /\ UNCHANGED <<qrCode, statusCallbacks, initializationTimeout, client,
                      initTimer, clients, reconnectTimers, nAttempts, booted,
                      awaiting, readySeen, lastQr, terminal, votes>>

\* client.on('ready') (lines 315-319)
ReadyHandler(c) ==
    LET n == NotifyStatusChange(statusCallbacks, CONNECTED, NoData)
    IN /\ Live(c)
       /\ status' = CONNECTED
       /\ last' = Did("ready", n.notes, n.threw, <<>>, NoResult)
       /\ UNCHANGED <<qrCode, statusCallbacks, initializationTimeout, client,
                      initTimer, clients, reconnectTimers, nAttempts, booted,
                      awaiting, lastQr, terminal, votes>>

Ready(c) == ReadyHandler(c) /\ UNCHANGED readySeen

\* the same handler, with the attempt whose Client emitted `ready` recorded
ReadyWatched(c) == ReadyHandler(c) /\ readySeen' = readySeen \cup {c}

\* client.on('disconnected') (lines 321-330): the setTimeout after the
\* notification is reached only when the notification returns
Disconnected(c, reason) ==
    LET n == NotifyStatusChange(statusCallbacks, DISCONNECTED, ReasonData(reason))
    IN /\ Live(c)
       /\ reconnectTimers < MaxReconnectTimers
       /\ status' = DISCONNECTED
       /\ reconnectTimers' = IF n.threw THEN reconnectTimers ELSE reconnectTimers + 1
       /\ last' = Did("disconnected", n.notes, n.threw, <<>>, NoResult)
       /\ UNCHANGED <<qrCode, statusCallbacks, initializationTimeout, client,
                      initTimer, clients, nAttempts, booted, awaiting,
                      readySeen, lastQr, terminal, votes>>

\* a 5 s reconnect timer fires (lines 326-329): this.initialize()
ReconnectFires ==
    /\ reconnectTimers > 0
    /\ reconnectTimers' = reconnectTimers - 1
    /\ Initialize("reconnect", <<>>, clients)
    /\ UNCHANGED <<qrCode, statusCallbacks, booted, awaiting, readySeen,
                   lastQr, terminal, votes>>

\* ------------------------------------------- reinitialize(), disconnect()

\* reinitialize() up to its await of client.destroy() (lines 573-577); with no
\* client it goes on to initialize() at once (line 582)
Reinitialize ==
    /\ booted
    /\ awaiting = NotAwaiting
    /\ terminal' = FALSE
    /\ nAttempts < MaxAttempts
    /\ IF client # 0
       THEN /\ awaiting' = [op |-> "reinitialize", c |-> client]
            /\ last' = Did("reinitializeCalled", <<>>, FALSE, <<"destroy">>, NoResult)
            /\ UNCHANGED <<status, initializationTimeout, client, initTimer, clients,
                           nAttempts>>
       ELSE /\ Initialize("reinitialize", <<>>, clients)
            /\ UNCHANGED awaiting
    /\ UNCHANGED <<qrCode, statusCallbacks, reconnectTimers, booted, readySeen, lastQr, votes>>

\* reinitialize() after client.destroy() returned (ok) or threw (lines 577-582):
\* the failure is caught and logged, initialize() follows either way
ReinitializeDestroyDone(ok) ==
    /\ awaiting.op = "reinitialize"
    /\ awaiting' = NotAwaiting
    /\ Initialize("reinitialize", <<"destroy">>,
                  IF ok THEN [clients EXCEPT ![awaiting.c] = Destroyed(@)] ELSE clients)
    /\ UNCHANGED <<qrCode, statusCallbacks, reconnectTimers, booted, readySeen,
                   lastQr, terminal, votes>>

\* disconnect() up to its await of client.destroy() (lines 799-804); with no
\* client it returns at once
Disconnect ==
    /\ booted
    /\ awaiting = NotAwaiting
    /\ terminal' = IF client # 0 THEN terminal ELSE TRUE
    /\ initTimer' = IF initializationTimeout # 0
                    THEN ClearTimeout(initTimer, initializationTimeout)
                    ELSE initTimer
    /\ IF client # 0
       THEN /\ awaiting' = [op |-> "disconnect", c |-> client]
            /\ last' = Did("disconnectCalled", <<>>, FALSE, <<"destroy">>, NoResult)
       ELSE /\ UNCHANGED awaiting
            /\ last' = Did("disconnectReturned", <<>>, FALSE, <<>>, NoResult)
    /\ UNCHANGED <<status, qrCode, statusCallbacks, initializationTimeout, client,
                   clients, reconnectTimers, nAttempts, booted, readySeen, lastQr, votes>>

\* disconnect() after client.destroy() returned (lines 805-806), or threw:
\* the exception leaves disconnect() and line 805 is not reached
DisconnectDestroyDone(ok) ==
    /\ awaiting.op = "disconnect"
    /\ terminal' = IF ok THEN TRUE ELSE terminal
    /\ awaiting' = NotAwaiting
    /\ clients' = IF ok THEN [clients EXCEPT ![awaiting.c] = Destroyed(@)] ELSE clients
    /\ status' = IF ok THEN DISCONNECTED ELSE status
    /\ last' = IF ok THEN Did("disconnectReturned", <<>>, FALSE, <<>>, NoResult)
                     ELSE Did("disconnectThrew", <<>>, TRUE, <<>>, NoResult)
    /\ UNCHANGED <<qrCode, statusCallbacks, initializationTimeout, client, initTimer,
                   reconnectTimers, nAttempts, booted, readySeen, lastQr, votes>>

\* -------------------------------------------------------------- observers

\* onStatusChange (lines 541-543)
OnStatusChange(kind) ==
    /\ Len(statusCallbacks) < MaxObservers
    /\ statusCallbacks' = Append(statusCallbacks, kind)
    /\ last' = Did("onStatusChange", <<>>, FALSE, <<>>, NoResult)
    /\ UNCHANGED <<status, qrCode, initializationTimeout, client, initTimer, clients,
                   reconnectTimers, nAttempts, booted, awaiting, readySeen,
                   lastQr, terminal, votes>>

\* ------------------------------------------------------ backend calls

\* the default of the parameter `retries` of makeHttpCallWithRetry (line 557)
Retries == 3
\* requests the backend is ready to answer for one call
MaxRequests == Retries + 1

\* what becomes of one HTTP request: a response, an error, or no answer
\* within 10 seconds
Outcomes == {"response", "error", "silent"}
\* what the backend does with the successive requests of one call
Schedules == [1..MaxRequests -> Outcomes]
\* a backend that treats every request of a call alike
SteadySchedules == {[i \in 1..MaxRequests |-> o] : o \in Outcomes}
\* the calls the service makes (lines 620, 658, 669, 688)
Endpoints == {"POST /polls", "GET /polls/M", "GET /polls/votes/M/V", "POST /polls/votes"}

\* timeout(10000), line 563: no answer within 10 s becomes an error
Timeout(outcome) == IF outcome = "silent" THEN "error" ELSE outcome

\* retry(retries), line 564: request number i is issued; on an error the source
\* is subscribed again while resubscriptions are left, then the error goes on
RECURSIVE Retry(_, _, _)
Retry(schedule, i, left) ==
    IF Timeout(schedule[i]) = "response" THEN [value |-> "response", requests |-> i]
    ELSE IF left > 0 THEN Retry(schedule, i + 1, left - 1)
    ELSE [value |-> "error", requests |-> i]

\* catchError(... of(null)), lines 565-569
CatchError(r) == IF r.value = "error" THEN [r EXCEPT !.value = "null"] ELSE r

\* the pipe without its catchError: the last error reaches the caller
MakeHttpCallUncaught(schedule, retries) == Retry(schedule, 1, retries)

\* makeHttpCallWithRetry (lines 557-571): what the returned observable yields
\* and how many requests it issued
MakeHttpCallWithRetry(schedule, retries) == CatchError(Retry(schedule, 1, retries))

\* the requests a call issued, each with what became of it
Requests(endpoint, schedule, n) ==
    [i \in 1..n |-> [request |-> endpoint, outcome |-> schedule[i]]]

\* one call of makeHttpCallWithRetry(...).toPromise() with the default retries
BackendCall(endpoint, schedule) ==
    LET r == MakeHttpCallWithRetry(schedule, Retries)
    IN /\ last' = Did("makeHttpCallWithRetry", <<>>, r.value = "error",
                      Requests(endpoint, schedule, r.requests),
                      [kind |-> "http", value |-> r.value, schedule |-> schedule])
       /\ UNCHANGED <<status, qrCode, statusCallbacks, initializationTimeout, client,
                      initTimer, clients, reconnectTimers, nAttempts, booted,
                      awaiting, readySeen, lastQr, terminal, votes>>

\* ------------------------------------------------------ phone numbers

\* longest phone string given to the formatter
MaxPhoneLen == 6
\* the characters of the phone strings: a digit and the characters of "@c.us"
PhoneChars == {"7", "@", "c", ".", "u", "s"}
Phones == UNION {[1..n -> PhoneChars] : n \in 0..MaxPhoneLen}
\* '@c.us'
Suffix == <<"@", "c", ".", "u", "s">>

\* \d
IsDigit(char) == char = "7"
\* String.prototype.includes
Includes(str, sub) ==
    /\ Len(sub) <= Len(str)
    /\ \E i \in 1..(Len(str) + 1 - Len(sub)) : SubSeq(str, i, i + Len(sub) - 1) = sub
\* str ends with sub
EndsWith(str, sub) ==
    /\ Len(sub) <= Len(str)
    /\ SubSeq(str, Len(str) + 1 - Len(sub), Len(str)) = sub

\* a formatter that appends the suffix to whatever it is given
FormatPhoneNumberAppends(phone) == phone \o Suffix

\* formatPhoneNumber (lines 406-413)
FormatPhoneNumber(phone) ==
    LET cleaned == SelectSeq(phone, IsDigit)
    IN IF ~Includes(phone, Suffix) THEN cleaned \o Suffix ELSE phone

\* a phone string with what the formatter made of it, and of that in turn
PhoneGiven(phone) ==
    Did("formatPhoneNumber", <<>>, FALSE, <<>>,
        [kind |-> "phone", given |-> phone, formatted |-> <<>>, again |-> <<>>,
         applied |-> 0])

\* formatPhoneNumber is applied to the given string, then to its own result
FormatPhoneNumberCall ==
    /\ last.op = "formatPhoneNumber"
    /\ last.result.applied < 2
    /\ LET r == last.result
       IN last' = [last EXCEPT !.result =
                     IF r.applied = 0
                     THEN [r EXCEPT !.formatted = FormatPhoneNumber(r.given), !.applied = 1]
                     ELSE [r EXCEPT !.again = FormatPhoneNumber(r.formatted), !.applied = 2]]
    /\ UNCHANGED <<status, qrCode, statusCallbacks, initializationTimeout, client,
                   initTimer, clients, reconnectTimers, nAttempts, booted, awaiting,
                   readySeen, lastQr, terminal, votes>>

\* ------------------------------------------------------ the send facade

\* what every send operation throws unless the session is connected, e.g.
\* line 418: new Error(`WhatsApp client not ready. Status: ${this.status}`)
NotReadyError(st) == [message |-> "WhatsApp client not ready", status |-> st]
\* an error thrown by the underlying client, the file system or a fetch
OtherError(msg) == [message |-> msg, status |-> Undefined]
\* the catch block of a send operation, e.g. line 434:
\* new Error(`Failed to send message: ${error.message}`)
Failure(prefix, error) ==
    [kind |-> "error", prefix |-> prefix, message |-> error.message,
     status |-> error.status]
Success == [kind |-> "ok"]

\* a readiness check that lets an authenticated session send as well
Ready4SendOnceAuthenticated(st) == st \in {CONNECTED, AUTHENTICATED}

\* the readiness check that opens every send operation, e.g. line 417
Ready4Send(st) == st = CONNECTED

\* a send operation that gives the session up when the client fails to send
SendResetsOnFailure(op, prefix, early, calls, sent, result) ==
    /\ last' =
        IF ~Ready4Send(status)
        THEN Did(op, <<>>, TRUE, <<>>, Failure(prefix, NotReadyError(status)))
        ELSE IF early # ""
        THEN Did(op, <<>>, TRUE, <<>>, Failure(prefix, OtherError(early)))
        ELSE IF ~sent
        THEN Did(op, <<>>, TRUE, calls, Failure(prefix, OtherError("client")))
        ELSE Did(op, <<>>, FALSE, calls, result)
    /\ status' = IF Ready4Send(status) /\ early = "" /\ ~sent THEN DISCONNECTED ELSE status
    /\ UNCHANGED <<qrCode, statusCallbacks, initializationTimeout, client,
                   initTimer, clients, reconnectTimers, nAttempts, booted, awaiting,
                   readySeen, lastQr, terminal, votes>>

\* a send operation `op`: the readiness check, then the steps of `calls` (the
\* calls on the underlying client, made in this order) unless `early` (an
\* error thrown between the check and the first call) is set; `sent` tells
\* whether the last call succeeded
Send(op, prefix, early, calls, sent, result) ==
    /\ last' =
        IF ~Ready4Send(status)
        THEN Did(op, <<>>, TRUE, <<>>, Failure(prefix, NotReadyError(status)))
        ELSE IF early # ""
        THEN Did(op, <<>>, TRUE, <<>>, Failure(prefix, OtherError(early)))
        ELSE IF ~sent
        THEN Did(op, <<>>, TRUE, calls, Failure(prefix, OtherError("client")))
        ELSE Did(op, <<>>, FALSE, calls, result)
    /\ UNCHANGED <<status, qrCode, statusCallbacks, initializationTimeout, client,
                   initTimer, clients, reconnectTimers, nAttempts, booted, awaiting,
                   readySeen, lastQr, terminal, votes>>

\* sendMessage (lines 415-436)
SendMessage(sent) ==
    Send("sendMessage", "Failed to send message", "", <<"sendMessage">>, sent, Success)

\* sendOTP (lines 438-446): sendMessage with the templated text
SendOTP(sent) ==
    Send("sendOTP", "Failed to send message", "", <<"sendMessage">>, sent, Success)

\* sendMedia (lines 448-478): the file must exist (line 456)
SendMedia(exists, sent) ==
    Send("sendMedia", "Failed to send media",
         IF exists THEN "" ELSE "File not found", <<"sendMessage">>, sent, Success)

\* sendMediaFromUrl (lines 480-516): the media is fetched first (line 494)
SendMediaFromUrl(fetched, sent) ==
    Send("sendMediaFromUrl", "Failed to send media from URL",
         IF fetched THEN "" ELSE "fetch", <<"sendMessage">>, sent, Success)

\* sendGroupMessage (lines 738-763)
SendGroupMessage(sent) ==
    Send("sendGroupMessage", "Failed to send group message", "", <<"sendMessage">>,
         sent, Success)

\* getGroups (lines 765-797)
GetGroups(sent) ==
    Send("getGroups", "Failed to fetch groups", "", <<"getChats">>, sent, Success)

\* what client.getNumberId does: resolves to an id, resolves to null, rejects
Lookups == {"id", "null", "throws"}
\* what checkNumberExists returned, and the lookup it got it from ("none" when
\* the client was not asked)
NumberExists(value, lookup) == [kind |-> "bool", value |-> value, lookup |-> lookup]

\* a checkNumberExists without the try/catch around its body
CheckNumberExistsUncaught(lookup) ==
    /\ last' =
        IF ~Ready4Send(status)
        THEN Did("checkNumberExists", <<>>, TRUE, <<>>,
                 Failure("", NotReadyError(status)))
        ELSE IF lookup = "throws"
        THEN Did("checkNumberExists", <<>>, TRUE, <<"getNumberId">>,
                 Failure("", OtherError("client")))
        ELSE Did("checkNumberExists", <<>>, FALSE, <<"getNumberId">>,
                 NumberExists(lookup # "null", lookup))
    /\ UNCHANGED <<status, qrCode, statusCallbacks, initializationTimeout, client,
                   initTimer, clients, reconnectTimers, nAttempts, booted, awaiting,
                   readySeen, lastQr, terminal, votes>>

\* checkNumberExists (lines 518-532): the readiness check, the lookup
\* `numberId !== null`, and the catch that turns every error into false
CheckNumberExists(lookup) ==
    /\ last' =
        IF ~Ready4Send(status)
        THEN Did("checkNumberExists", <<>>, FALSE, <<>>, NumberExists(FALSE, "none"))
        ELSE IF lookup = "throws"
        THEN Did("checkNumberExists", <<>>, FALSE, <<"getNumberId">>,
                 NumberExists(FALSE, lookup))
        ELSE Did("checkNumberExists", <<>>, FALSE, <<"getNumberId">>,
                 NumberExists(lookup # "null", lookup))
    /\ UNCHANGED <<status, qrCode, statusCallbacks, initializationTimeout, client,
                   initTimer, clients, reconnectTimers, nAttempts, booted, awaiting,
                   readySeen, lastQr, terminal, votes>>

\* option names and local ids of the polls, reply keys of the DTOs
OptionNames == {"A", "B"}
LocalIds == {0, 1, 2}
\* localId.toString() (line 592); the keys of responseMessages are strings
IdString(id) == IF id = 0 THEN "0" ELSE IF id = 1 THEN "1" ELSE "2"
\* dto.pollOptions: options {name, localId}
PollOptionLists ==
    {<<[name |-> "A", localId |-> 1], [name |-> "B", localId |-> 2]>>,
     <<[name |-> "A", localId |-> 0], [name |-> "B", localId |-> 1]>>}
\* Object.keys(dto.responseMessages)
ResponseKeySets == {{}, {"1"}, {"1", "2"}, {"0", "1"}}
\* dto.responseMessages: the reply text configured under each key
ResponseMessages(keys) == [k \in keys |-> <<"reply", k>>]
\* SendPollDto
PollDtos ==
    {[pollOptions |-> o, responseMessages |-> ResponseMessages(k)] :
        o \in PollOptionLists, k \in ResponseKeySets}

\* a validation that looks the numeric ids up among the string keys, where
\* none is found: every option id is reported
MissingResponsesUnconverted(dto) == [i \in 1..Len(dto.pollOptions) |-> IdString(dto.pollOptions[i].localId)]

\* sendPoll, lines 592-595: the option ids, as strings and in option order,
\* that are no key of responseMessages
MissingResponses(dto) ==
    LET optionIds == [i \in 1..Len(dto.pollOptions) |-> IdString(dto.pollOptions[i].localId)]
        Missing(id) == id \notin DOMAIN dto.responseMessages
    IN SelectSeq(optionIds, Missing)

\* line 598 through the catch of line 641: the error that lists the ids
MissingFailure(ids) ==
    [kind |-> "error", prefix |-> "Failed to send poll",
     message |-> "Missing response messages for option IDs", status |-> Undefined,
     ids |-> ids]

\* lines 627-636: the result of a poll that was sent
PollSent(dto, pollResponse) ==
    [kind |-> "ok", success |-> TRUE, pollOptions |-> dto.pollOptions,
     backendStored |-> pollResponse.value # "null"]

\* the calls of a sendPoll that got past its validation: the poll message,
\* and once that is sent the store call with what it came back with
PollCalls(sent, pollResponse) ==
    IF ~sent THEN <<"sendMessage">>
    ELSE IF pollResponse.value = "null" THEN <<"sendMessage", "POST /polls: null">>
    ELSE <<"sendMessage", "POST /polls: response">>

\* a sendPoll that fails when the backend did not store the poll
SendPollStoredOrFails(dto, sent, schedule) ==
    LET pollResponse == MakeHttpCallWithRetry(schedule, Retries)
    IN IF Ready4Send(status) /\ MissingResponses(dto) # <<>>
       THEN Send("sendPoll", "Failed to send poll", "Missing", <<>>, sent, Success)
       ELSE Send("sendPoll", "Failed to send poll", "", PollCalls(sent, pollResponse),
                 sent /\ pollResponse.value # "null", PollSent(dto, pollResponse))

\* sendPoll (lines 585-643): the option ids without a response message are
\* refused (lines 592-599), the poll is sent (line 607), then stored in the
\* backend through the retry wrapper (line 620), whose failure is logged only
SendPoll(dto, sent, schedule) ==
    LET missingResponses == MissingResponses(dto)
        pollResponse == MakeHttpCallWithRetry(schedule, Retries)
    IN IF Ready4Send(status) /\ missingResponses # <<>>
       THEN /\ last' = Did("sendPoll", <<>>, TRUE, <<>>, MissingFailure(missingResponses))
            /\ UNCHANGED <<status, qrCode, statusCallbacks, initializationTimeout,
                           client, initTimer, clients, reconnectTimers, nAttempts,
                           booted, awaiting, readySeen, lastQr, terminal, votes>>
       ELSE Send("sendPoll", "Failed to send poll", "", PollCalls(sent, pollResponse),
                 sent, PollSent(dto, pollResponse))

\* ------------------------------------------------- the vote pipeline

\* the PollVote of a `vote_update` event: the name of selectedOptions[0]
\* (Undefined when selectedOptions is empty) and parentMessage.pollOptions || []
VoteInputs ==
    [selected : OptionNames \cup {"C", Undefined},
     parent : PollOptionLists \cup {<<>>}]

\* the poll records the backend holds: what a sendPoll that passed its
\* validation posted (lines 610-617)
PollRecords == {dto \in PollDtos : MissingResponses(dto) = <<>>}
\* the body of a response to GET /polls/M: none, one without the `data`
\* member, or one that carries a poll record
NoBody == [kind |-> "nobody"]
NoRecord == [kind |-> "norecord"]
PollBodies == {NoBody, NoRecord} \cup {[kind |-> "record", data |-> r] : r \in PollRecords}

\* no reply text
NoMessage == <<>>

\* the handler of one vote event: where it is, its event, the body of the poll
\* response it fetched, the option id it resolved, the calls it has issued,
\* what its awaited calls came back with, how it ended
Vote(pc, in, body, id, calls, answers, outcome) ==
    [pc |-> pc, in |-> in, body |-> body, selectedOptionId |-> id,
     calls |-> calls, answers |-> answers, outcome |-> outcome]

Call(name) == [call |-> name, arg |-> Undefined]
CallWith(name, arg) == [call |-> name, arg |-> arg]

\* a handler without the catch of line 733: what is thrown inside leaves it
EndedUncaught(v, calls, answer, outcome) ==
    Vote("done", v.in, v.body, v.selectedOptionId, v.calls \o calls,
         Append(v.answers, answer), IF outcome = "caught" THEN "threw" ELSE outcome)

\* the handler has ended: it returned, or threw into its own catch (line 733)
Ended(v, calls, answer, outcome) ==
    Vote("done", v.in, v.body, v.selectedOptionId, v.calls \o calls,
         Append(v.answers, answer), outcome)

\* an option lookup in the poll record the backend returned
MatchInPollRecord(in, pollData) ==
    LET options == pollData.pollOptions
        hits == {i \in 1..Len(options) : options[i].name = in.selected}
    IN IF hits = {} THEN 0 ELSE options[CHOOSE i \in hits : \A j \in hits : i <= j].localId

\* lines 679-681: parentPollOptions.find(opt => opt.name === selectedOption.name),
\* then matchingOption?.localId || 0; the poll record is not consulted
SelectedOptionId(in, pollData) ==
    LET parentPollOptions == in.parent
        hits == {i \in 1..Len(parentPollOptions) : parentPollOptions[i].name = in.selected}
    IN IF hits = {} THEN 0
       ELSE parentPollOptions[CHOOSE i \in hits : \A j \in hits : i <= j].localId

\* line 702: pollData.responseMessages?.[selectedOptionId.toString()]
ResponseMessage(pollData, id) ==
    IF IdString(id) \in DOMAIN pollData.responseMessages
    THEN pollData.responseMessages[IdString(id)]
    ELSE NoMessage

VoteFrame == <<status, qrCode, statusCallbacks, initializationTimeout, client, initTimer,
               clients, reconnectTimers, nAttempts, booted, awaiting, readySeen, lastQr,
               terminal, last>>

\* client.on('vote_update') (lines 360-403) into handlePollVoteResponse up to
\* its first await (lines 653-658): the poll is asked of the backend
VoteUpdate(e, c, in) ==
    /\ Live(c)
    /\ votes[e] = Idle
    /\ votes' = [votes EXCEPT ![e] =
                    Vote("fetching", in, NoBody, 0, <<Call("GET /polls/M")>>, <<>>, Undefined)]
    /\ UNCHANGED VoteFrame

\* a test of the poll response that takes any response for a poll
PollUnavailableWithoutResponse(pollResponse, body) == pollResponse.value = "null"

\* line 661: !pollResponse || !pollResponse.data
PollUnavailable(pollResponse, body) == pollResponse.value = "null" \/ body = NoBody

\* a handler that asks the processed check and posts the vote together, as
\* soon as the poll fetch has returned
PollFetchedPostsAtOnce(e, schedule, body) ==
    LET v == votes[e]
        pollResponse == MakeHttpCallWithRetry(schedule, Retries)
        answer == IF pollResponse.value = "null" THEN "null" ELSE body.kind
        selectedOptionId == SelectedOptionId(v.in, body)
    IN /\ v.pc = "fetching"
       /\ votes' = [votes EXCEPT ![e] =
            IF PollUnavailable(pollResponse, body)
            THEN Ended(v, <<>>, answer, "returned")
            ELSE Vote("recording", v.in, body, selectedOptionId,
                      v.calls \o <<Call("GET /polls/votes/M/V"),
                                   CallWith("POST /polls/votes", selectedOptionId)>>,
                      Append(v.answers, answer), Undefined)]
       /\ UNCHANGED VoteFrame

\* the poll fetch has returned (lines 658-669): without a response or a body
\* the handler returns; otherwise the processed check is asked
PollFetched(e, schedule, body) ==
    LET v == votes[e]
        pollResponse == MakeHttpCallWithRetry(schedule, Retries)
        answer == IF pollResponse.value = "null" THEN "null" ELSE body.kind
    IN /\ v.pc = "fetching"
       /\ votes' = [votes EXCEPT ![e] =
            IF PollUnavailable(pollResponse, body)
            THEN Ended(v, <<>>, answer, "returned")
            ELSE Vote("checking", v.in, body, 0,
                      v.calls \o <<Call("GET /polls/votes/M/V")>>,
                      Append(v.answers, answer), Undefined)]
       /\ UNCHANGED VoteFrame

\* a processed check whose answer is not looked at
AlreadyProcessedIgnored(alreadyProcessedResponse, already) == FALSE

\* line 671: alreadyProcessedResponse?.data?.data?.alreadyProcessed
AlreadyProcessed(alreadyProcessedResponse, already) ==
    alreadyProcessedResponse.value # "null" /\ already

\* a handler that remembers locally which votes it is handling: it drops an
\* event when another event of the same voter on the same poll has passed
\* its processed check
ProcessedCheckedOncePerVoter(e, schedule, already) ==
    LET v == votes[e]
        alreadyProcessedResponse == MakeHttpCallWithRetry(schedule, Retries)
        selectedOptionId == SelectedOptionId(v.in, v.body)
        answer == IF alreadyProcessedResponse.value = "null" THEN "null"
                  ELSE IF already THEN "processed" ELSE "new"
        seen == \E o \in VoteEvents \ {e} :
                    /\ Len(votes[o].answers) >= 2
                    /\ votes[o].answers[2] \in {"null", "new"}
    IN /\ v.pc = "checking"
       /\ votes' = [votes EXCEPT ![e] =
            IF AlreadyProcessed(alreadyProcessedResponse, already) \/ seen
            THEN Ended(v, <<>>, answer, "returned")
            ELSE IF v.in.selected = Undefined
            THEN Ended(v, <<>>, answer, "caught")
            ELSE Vote("recording", v.in, v.body, selectedOptionId,
                      v.calls \o <<CallWith("POST /polls/votes", selectedOptionId)>>,
                      Append(v.answers, answer), Undefined)]
       /\ UNCHANGED VoteFrame

\* the processed check has returned (lines 669-694): an already processed
\* vote ends the handler; otherwise the option is resolved (selectedOption.name
\* throws when selectedOptions is empty) and the vote is posted
ProcessedChecked(e, schedule, already) ==
    LET v == votes[e]
        alreadyProcessedResponse == MakeHttpCallWithRetry(schedule, Retries)
        selectedOptionId == SelectedOptionId(v.in, v.body)
        answer == IF alreadyProcessedResponse.value = "null" THEN "null"
                  ELSE IF already THEN "processed" ELSE "new"
    IN /\ v.pc = "checking"
       /\ votes' = [votes EXCEPT ![e] =
            IF AlreadyProcessed(alreadyProcessedResponse, already)
            THEN Ended(v, <<>>, answer, "returned")
            ELSE IF v.in.selected = Undefined
            THEN Ended(v, <<>>, answer, "caught")
            ELSE Vote("recording", v.in, v.body, selectedOptionId,
                      v.calls \o <<CallWith("POST /polls/votes", selectedOptionId)>>,
                      Append(v.answers, answer), Undefined)]
       /\ UNCHANGED VoteFrame

\* a handler that replies through the underlying client itself, whatever the
\* state of the session
VoteRecordedRepliesDirectly(e, schedule) ==
    LET v == votes[e]
        responseMessage == IF v.body.kind = "record"
                           THEN ResponseMessage(v.body.data, v.selectedOptionId)
                           ELSE NoMessage
        reply == CallWith("sendMessage", responseMessage)
        answer == MakeHttpCallWithRetry(schedule, Retries).value
    IN /\ v.pc = "recording"
       /\ votes' = [votes EXCEPT ![e] =
            IF v.body.kind # "record" THEN Ended(v, <<>>, answer, "caught")
            ELSE IF responseMessage = NoMessage THEN Ended(v, <<>>, answer, "returned")
            ELSE Vote("replying", v.in, v.body, v.selectedOptionId,
                      v.calls \o <<reply, CallWith("client.sendMessage", responseMessage)>>,
                      Append(v.answers, answer), Undefined)]
       /\ UNCHANGED VoteFrame

\* the record-vote call has returned (lines 688-711), whatever it returned:
\* the reply configured for the option id is looked up (pollData.responseMessages
\* throws when the body carried no record) and, if there is one, sendMessage
\* is called, which sends only in state CONNECTED (line 417)
VoteRecorded(e, schedule) ==
    LET v == votes[e]
        responseMessage == IF v.body.kind = "record"
                           THEN ResponseMessage(v.body.data, v.selectedOptionId)
                           ELSE NoMessage
        reply == CallWith("sendMessage", responseMessage)
        answer == MakeHttpCallWithRetry(schedule, Retries).value
    IN /\ v.pc = "recording"
       /\ votes' = [votes EXCEPT ![e] =
            IF v.body.kind # "record" THEN Ended(v, <<>>, answer, "caught")
            ELSE IF responseMessage = NoMessage THEN Ended(v, <<>>, answer, "returned")
            ELSE IF ~Ready4Send(status) THEN Ended(v, <<reply>>, answer, "returned")
            ELSE Vote("replying", v.in, v.body, v.selectedOptionId,
                      v.calls \o <<reply, CallWith("client.sendMessage", responseMessage)>>,
                      Append(v.answers, answer), Undefined)]
       /\ UNCHANGED VoteFrame

\* client.sendMessage has returned or thrown (lines 704-709): logged either way
ReplySent(e, sent) ==
    LET v == votes[e]
    IN /\ v.pc = "replying"
       /\ votes' = [votes EXCEPT ![e] =
                      Ended(v, <<>>, IF sent THEN "sent" ELSE "failed", "returned")]
       /\ UNCHANGED VoteFrame

\* the handler, for the vote events `events`
VotePipeline(events) ==
    \/ \E e \in events, c \in Attempts, in \in VoteInputs : VoteUpdate(e, c, in)
    \/ \E e \in events, schedule \in Schedules, body \in PollBodies :
            PollFetched(e, schedule, body)
    \/ \E e \in events, schedule \in Schedules, already \in BOOLEAN :
            ProcessedChecked(e, schedule, already)
    \/ \E e \in events, schedule \in Schedules : VoteRecorded(e, schedule)
    \/ \E e \in events, sent \in BOOLEAN : ReplySent(e, sent)

\* getStatus returning the stored QR payload whatever the state
GetStatusAlwaysQr == [status |-> status, qr |-> qrCode]

\* getStatus (lines 534-539)
GetStatus ==
    [status |-> status,
     qr |-> IF status = QR_READY THEN qrCode ELSE Undefined]

GetStatusCall ==
    /\ last' = Did("getStatus", <<>>, FALSE, <<>>, GetStatus)
    /\ UNCHANGED <<status, qrCode, statusCallbacks, initializationTimeout, client,
                   initTimer, clients, reconnectTimers, nAttempts, booted, awaiting,
                   readySeen, lastQr, terminal, votes>>

\* the operations of the facade
FacadeWith(dtos) ==
    \/ \E sent \in BOOLEAN : SendMessage(sent)
    \/ \E sent \in BOOLEAN : SendOTP(sent)
    \/ \E exists, sent \in BOOLEAN : SendMedia(exists, sent)
    \/ \E fetched, sent \in BOOLEAN : SendMediaFromUrl(fetched, sent)
    \/ \E sent \in BOOLEAN : SendGroupMessage(sent)
    \/ \E sent \in BOOLEAN : GetGroups(sent)
    \/ \E dto \in dtos, sent \in BOOLEAN, schedule \in SteadySchedules :
            SendPoll(dto, sent, schedule)
    \/ \E lookup \in Lookups : CheckNumberExists(lookup)
    \/ GetStatusCall

\* the callers of the facade, sending every poll
Facade == FacadeWith(PollDtos)

\* ------------------------------------------------------------------- Next

\* the session on its own, but for `ready`: the module start, the underlying
\* client's promises and events, and the timers
Session ==
    \/ OnModuleInit
    \/ \E a \in Attempts : StartupResolves(a)
    \/ \E a \in Attempts : StartupFails(a)
    \/ \E a \in Attempts : InitializationTimeoutFires(a)
    \/ \E c \in Attempts, qr \in QrPayloads : Qr(c, qr)
    \/ \E c \in Attempts : Authenticated(c)
    \/ \E c \in Attempts, msg \in Reasons : AuthFailure(c, msg)
    \/ \E c \in Attempts, reason \in Reasons : Disconnected(c, reason)
    \/ ReconnectFires

\* the session lifecycle but for `ready`: the session with an operator calling
\* reinitialize() and disconnect()
Lifecycle ==
    \/ Session
    \/ Reinitialize
    \/ \E ok \in BOOLEAN : ReinitializeDestroyDone(ok)
    \/ Disconnect
    \/ \E ok \in BOOLEAN : DisconnectDestroyDone(ok)

\* the session lifecycle with no observer registered
Next ==
    \/ Lifecycle
    \/ \E c \in Attempts : Ready(c)

Spec == Init /\ [][Next]_vars

\* the lifecycle with status observers registering at any time
ObserverNext ==
    \/ Lifecycle
    \/ \E c \in Attempts : Ready(c)
    \/ \E kind \in ObserverKinds : OnStatusChange(kind)

ObserverSpec == Init /\ [][ObserverNext]_vars

\* the lifecycle with the elapse of every 60 s period and the `ready` events
\* of each attempt recorded
TimeoutNext ==
    \/ Lifecycle
    \/ \E c \in Attempts : ReadyWatched(c)
    \/ \E a \in Attempts : InitializationTimeoutLapses(a)

TimeoutSpec == Init /\ [][TimeoutNext]_vars

\* the session with the callers of the facade
FacadeNext ==
    \/ Session
    \/ \E c \in Attempts : Ready(c)
    \/ Facade

FacadeSpec == Init /\ [][FacadeNext]_vars

\* one client from the module start to its disconnection
FirstSession ==
    \/ OnModuleInit
    \/ \E a \in Attempts : StartupResolves(a)
    \/ \E c \in Attempts, qr \in QrPayloads : Qr(c, qr)
    \/ \E c \in Attempts : Authenticated(c)
    \/ \E c \in Attempts : Ready(c)
    \/ \E c \in Attempts, reason \in Reasons : Disconnected(c, reason)

\* polls sent during that session, against every backend schedule
PollNext ==
    \/ FirstSession
    \/ \E dto \in PollDtos, sent \in BOOLEAN, schedule \in Schedules :
            SendPoll(dto, sent, schedule)

PollSpec == Init /\ [][PollNext]_vars

\* one vote handled during that session
VoteNext == FirstSession \/ VotePipeline({"v1"})

VoteSpec == Init /\ [][VoteNext]_vars

\* the vote of one voter for option A of a poll
VoteForA ==
    [selected |-> "A",
     parent |-> <<[name |-> "A", localId |-> 1], [name |-> "B", localId |-> 2]>>]
\* what the backend answers when asked for that poll: nothing, or its record
PollBodiesForA ==
    {NoBody} \cup {[kind |-> "record", data |-> r] :
                     r \in {p \in PollRecords : p.pollOptions = VoteForA.parent}}

\* the handler for the vote events `events` of that voter, against a backend
\* that answers every request of a call alike; the handlers of several
\* events interleave at every await
SteadyVotes(events) ==
    \/ \E e \in events, c \in Attempts : VoteUpdate(e, c, VoteForA)
    \/ \E e \in events, schedule \in SteadySchedules, body \in PollBodiesForA :
            PollFetched(e, schedule, body)
    \/ \E e \in events, schedule \in SteadySchedules, already \in BOOLEAN :
            ProcessedChecked(e, schedule, already)
    \/ \E e \in events, schedule \in SteadySchedules : VoteRecorded(e, schedule)
    \/ \E e \in events, sent \in BOOLEAN : ReplySent(e, sent)

\* two vote events of the same voter on the same poll
ConcurrentVoteNext ==
    \/ OnModuleInit
    \/ \E a \in Attempts : StartupResolves(a)
    \/ \E c \in Attempts : Ready(c)
    \/ \E c \in Attempts, reason \in Reasons : Disconnected(c, reason)
    \/ SteadyVotes(VoteEvents)

ConcurrentVoteSpec == Init /\ [][ConcurrentVoteNext]_vars

\* the polls over the first option list with every reply and with none
FramePollDtos ==
    {dto \in PollDtos :
        /\ dto.pollOptions[1].localId = 1
        /\ DOMAIN dto.responseMessages \in {{}, {"1", "2"}}}

\* the session with the callers of the facade, backend calls and one vote
FrameNext ==
    \/ FirstSession
    \/ FacadeWith(FramePollDtos)
    \/ \E endpoint \in Endpoints, schedule \in SteadySchedules : BackendCall(endpoint, schedule)
    \/ SteadyVotes({"v1"})

FrameSpec == Init /\ [][FrameNext]_vars

\* the formatter on every phone string
PhoneInit ==
    /\ status = DISCONNECTED
    /\ qrCode = ""
    /\ statusCallbacks = <<>>
    /\ initializationTimeout = 0
    /\ client = 0
    /\ initTimer = [a \in Attempts |-> "none"]
    /\ clients = [a \in Attempts |-> "none"]
    /\ reconnectTimers = 0
    /\ nAttempts = 0
    /\ booted = FALSE
    /\ awaiting = NotAwaiting
    /\ readySeen = {}
    /\ lastQr = Undefined
    /\ terminal = FALSE
    /\ votes = [e \in VoteEvents |-> Idle]
    /\ \E phone \in Phones : last = PhoneGiven(phone)

PhoneNext == FormatPhoneNumberCall

PhoneSpec == PhoneInit /\ [][PhoneNext]_vars

\* backend calls through the retry wrapper, against every backend schedule
RetryNext == \E endpoint \in Endpoints, schedule \in Schedules : BackendCall(endpoint, schedule)

RetrySpec == Init /\ [][RetryNext]_vars

\* the lifecycle with observers that never throw registering at any time
ReturningObserverNext ==
    \/ Lifecycle
    \/ \E c \in Attempts : Ready(c)
    \/ OnStatusChange("returns")

ReturningObserverSpec == Init /\ [][ReturningObserverNext]_vars

\* ----------------------------------------------------------------- claims

SendOps == {"sendMessage", "sendOTP", "sendMedia", "sendMediaFromUrl", "sendPoll",
            "sendGroupMessage", "getGroups"}

\* the invocations a notification of state st to every observer makes: each
\* observer once, in registration order
FanOut(cbs, st) == [i \in 1..Len(cbs) |-> <<i, st>>]
\* the invocations a handler made: which observer, with which state
Invoked(notes) == [i \in 1..Len(notes) |-> <<notes[i].cb, notes[i].status>>]

\* C1: in every state other than CONNECTED every send operation (sendMessage,
\* sendOTP, sendMedia, sendMediaFromUrl, sendPoll, sendGroupMessage, getGroups)
\* fails with the not-ready error that carries the current state, and makes
\* no call on the underlying client.
C1_NotReadyRefused ==
    (last.op \in SendOps /\ status # CONNECTED) =>
        /\ last.threw
        /\ last.result.kind = "error"
        /\ last.result.message = NotReadyError(status).message
        /\ last.result.status = status
        /\ last.calls = <<>>

\* C1 witness: sendMessage was called in state QR_READY and was refused
C1_Witness ==
    /\ last.op = "sendMessage"
    /\ status = QR_READY
    /\ last.result = Failure("Failed to send message", NotReadyError(QR_READY))
    /\ last.calls = <<>>

\* C2 (as claimed): handling a `disconnected` event, from any state, sets the
\* state to DISCONNECTED, notifies every observer and schedules one
\* reconnection attempt.
C2_DisconnectedSchedulesReconnect ==
    [][(\E c \in Attempts, reason \in Reasons : Disconnected(c, reason)) =>
          /\ status' = DISCONNECTED
          /\ Invoked(last'.notes) = FanOut(statusCallbacks, DISCONNECTED)
          /\ \A i \in 1..Len(last'.notes) : last'.notes[i].data.kind = "reason"
          /\ reconnectTimers' = reconnectTimers + 1]_vars

\* C3 (as claimed): at every instant at most one reconnection timer is pending,
\* also when two `disconnected` events are handled within the delay.
C3_AtMostOneReconnectTimer == reconnectTimers <= 1

\* C4: at every instant at most one initialization timeout is pending,
\* whatever sequence of initialize() calls and events came before.
C4_AtMostOneInitTimeout == Cardinality(PendingInitTimers) <= 1

\* C4 witness: a second initialize() ran while the first attempt's startup was
\* still pending; the first timeout is cancelled and the second is pending
C4_Witness ==
    /\ last.op \in {"reconnect", "reinitialize"}
    /\ nAttempts = 2
    /\ clients[1] = "starting"
    /\ initTimer[1] = "cancelled"
    /\ initTimer[2] = "pending"

\* C5 (as claimed): when the 60 s of an initialization attempt elapse and no
\* `ready` event of that attempt has been handled, the state is forced to
\* DISCONNECTED and the observers are notified of an "Initialization timeout".
C5_ElapseWithoutReadyDisconnects ==
    [][\A a \in Attempts :
          (/\ InitializationTimeoutFires(a) \/ InitializationTimeoutLapses(a)
           /\ a \notin readySeen) =>
              /\ status' = DISCONNECTED
              /\ Invoked(last'.notes) = FanOut(statusCallbacks, DISCONNECTED)
              /\ \A i \in 1..Len(last'.notes) :
                    last'.notes[i].data = ErrorData("Initialization timeout")]_vars

\* C6: only the `disconnected` handler schedules a reconnection: an
\* `auth_failure` event, a firing initialization timeout and a failed startup
\* call set the state to DISCONNECTED and schedule no call of initialize().
C6_OnlyDisconnectedSchedules ==
    [][/\ reconnectTimers' > reconnectTimers =>
            \E c \in Attempts, reason \in Reasons : Disconnected(c, reason)
       /\ (\/ \E c \in Attempts, msg \in Reasons : AuthFailure(c, msg)
           \/ \E a \in Attempts : InitializationTimeoutFires(a)
           \/ \E a \in Attempts : StartupFails(a)) =>
              /\ status' = DISCONNECTED
              /\ reconnectTimers' = reconnectTimers
              /\ awaiting' = awaiting
              /\ nAttempts' = nAttempts]_vars

\* C6 witness: an `auth_failure` event was handled in a connected session and
\* left it disconnected with no reconnection pending
C6_Witness ==
    /\ last.op = "auth_failure"
    /\ status = DISCONNECTED
    /\ reconnectTimers = 0
    /\ awaiting = NotAwaiting
    /\ \E c \in Attempts : clients[c] = "started"

\* C7: the snapshot of getStatus() carries the current state; it carries a QR
\* value exactly in state QR_READY, and then the payload of the `qr` event
\* handled last.
C7_StatusSnapshot ==
    /\ GetStatus.status = status
    /\ status = QR_READY => (GetStatus.qr = lastQr /\ lastQr \in QrPayloads)
    /\ status # QR_READY => GetStatus.qr = Undefined

\* C7 witness: a `qr` event with payload qrB was handled after an
\* initialization timeout had been cleared; the snapshot carries that payload
C7_Witness ==
    /\ last.op = "qr"
    /\ status = QR_READY
    /\ GetStatus.qr = "qrB"
    /\ \E a \in Attempts : initTimer[a] = "cancelled"

\* C8 (as claimed): every change of the session state invokes every registered
\* observer exactly once with the new state, in registration order.
C8_EveryChangeNotified ==
    [][status' # status =>
          Invoked(last'.notes) = FanOut(statusCallbacks, status')]_vars

\* C9 (as claimed): when an observer throws during a notification, every
\* observer registered after it is still invoked for that transition.
C9_ThrowerDoesNotSkipOthers ==
    last.notes # <<>> =>
        \A j \in 1..Len(statusCallbacks) :
            \E i \in 1..Len(last.notes) : last.notes[i].cb = j

\* C11 (as claimed): once disconnect() has returned, and until reinitialize()
\* is called, the state stays DISCONNECTED and no initialization attempt
\* starts, also when a reconnection timer was pending at the call.
C11_DisconnectIsTerminal ==
    [][terminal' => (/\ status' = DISCONNECTED
                     /\ terminal => nAttempts' = nAttempts)]_vars

\* C12 (as claimed): reinitialize() always starts a new initialization attempt
\* (state CONNECTING, a new timeout armed) once the destroy call has returned
\* or failed, and raises nothing to its caller.
C12_ReinitializeStartsAttempt ==
    [][(\/ \E ok \in BOOLEAN : ReinitializeDestroyDone(ok)
        \/ Reinitialize /\ client = 0) =>
          /\ status' = CONNECTING
          /\ nAttempts' = nAttempts + 1
          /\ initializationTimeout' = nAttempts'
          /\ initTimer'[nAttempts'] = "pending"
          /\ ~last'.threw]_vars

\* C13: a backend call through the retry wrapper never raises; it yields a
\* response exactly when one of the requests it issued got one (so after two
\* failures and a success on the third request), and the null result when
\* every request failed or ran into the 10 s timeout.
C13_BackendCallNeverRaises ==
    last.op = "makeHttpCallWithRetry" =>
        LET s == last.result.schedule
        IN /\ ~last.threw
           /\ last.result.value \in {"response", "null"}
           /\ last.result.value = "response" <=>
                  \E i \in 1..Len(last.calls) : last.calls[i].outcome = "response"
           /\ (s[1] # "response" /\ s[2] # "response" /\ s[3] = "response") =>
                  last.result.value = "response"
           /\ (\A i \in 1..MaxRequests : s[i] # "response") => last.result.value = "null"

\* C13 witness: an error, a timeout, then a response on the third request
C13_Witness ==
    /\ last.op = "makeHttpCallWithRetry"
    /\ last.result.schedule[1] = "error"
    /\ last.result.schedule[2] = "silent"
    /\ last.result.schedule[3] = "response"
    /\ Len(last.calls) = 3
    /\ last.result.value = "response"

\* C14 (as claimed): with the default retry setting one backend call issues at
\* most 3 requests before it gives up.
C14_AtMostThreeRequests ==
    last.op = "makeHttpCallWithRetry" => Len(last.calls) <= 3

\* C10 (as claimed): after disconnect() completes, whether destroy() succeeded
\* or not, the state is DISCONNECTED and no initialization timeout is pending.
C10_DisconnectLeavesDisconnected ==
    last.op \in {"disconnectReturned", "disconnectThrew"} =>
        /\ status = DISCONNECTED
        /\ PendingInitTimers = {}

\* the calls of the names `names` among the calls of a vote handler
CallsOf(v, names) == {i \in 1..Len(v.calls) : v.calls[i].call \in names}

\* C15: in state CONNECTED a sendPoll whose poll has an option localId without
\* an entry in responseMessages fails with an error that lists exactly the
\* missing ids, and no poll is sent and no backend call made.
C15_MissingRepliesRefused ==
    [][\A dto \in PollDtos :
          LET options == dto.pollOptions
              missing == {i \in 1..Len(options) :
                            IdString(options[i].localId) \notin DOMAIN dto.responseMessages}
          IN (/\ status = CONNECTED
              /\ missing # {}
              /\ \E sent \in BOOLEAN, schedule \in SteadySchedules :
                    SendPoll(dto, sent, schedule)) =>
                 /\ last'.threw
                 /\ last'.result.kind = "error"
                 /\ last'.result.message = "Missing response messages for option IDs"
                 /\ Len(last'.result.ids) = Cardinality(missing)
                 /\ {last'.result.ids[k] : k \in 1..Len(last'.result.ids)} =
                        {IdString(options[i].localId) : i \in missing}
                 /\ last'.calls = <<>>]_vars

\* C15 witness: a poll with options 1 and 2 and a reply for 1 only was refused
\* in state CONNECTED, the error listing id 2
C15_Witness ==
    /\ last.op = "sendPoll"
    /\ status = CONNECTED
    /\ last.result = MissingFailure(<<"2">>)
    /\ last.calls = <<>>

\* C16: once the client has sent the poll message, sendPoll succeeds whatever
\* the backend store call does, and reports backendStored true exactly when
\* that call came back with a response.
C16_PollSentDespiteBackend ==
    (last.op = "sendPoll" /\ Len(last.calls) = 2) =>
        /\ ~last.threw
        /\ last.result.kind = "ok"
        /\ last.result.success
        /\ last.result.backendStored <=> last.calls[2] = "POST /polls: response"

\* C16 witness: the poll was sent, the store call came back with nothing, and
\* the result is a success with backendStored false
C16_Witness ==
    /\ last.op = "sendPoll"
    /\ last.calls = <<"sendMessage", "POST /polls: null">>
    /\ ~last.threw
    /\ last.result.kind = "ok"
    /\ ~last.result.backendStored

\* C17: when the processed check reports alreadyProcessed for the vote, the
\* handler issues no record-vote call and sends no reply.
C17_ProcessedVoteHasNoEffect ==
    \A e \in VoteEvents :
        (votes[e].pc # "idle" /\ Len(votes[e].answers) >= 2
            /\ votes[e].answers[2] = "processed") =>
            /\ votes[e].pc = "done"
            /\ CallsOf(votes[e], {"POST /polls/votes", "sendMessage", "client.sendMessage"}) = {}

\* C17 witness: the poll record was fetched and the check reported the vote
\* as processed; the handler has ended
C17_Witness ==
    /\ votes["v1"].pc = "done"
    /\ votes["v1"].answers = <<"record", "processed">>
    /\ Len(votes["v1"].calls) = 2

\* C18: when the poll fetch fails or comes back without data, the handler ends
\* with no call to the check-processed and record-vote endpoints and no reply.
C18_NoPollNoEffect ==
    \A e \in VoteEvents :
        (votes[e].pc # "idle" /\ Len(votes[e].answers) >= 1
            /\ votes[e].answers[1] \in {"null", "nobody"}) =>
            /\ votes[e].pc = "done"
            /\ votes[e].calls = <<Call("GET /polls/M")>>

\* C18 witness: the backend answered the poll fetch with an empty body
C18_Witness ==
    /\ votes["v1"].pc = "done"
    /\ votes["v1"].answers = <<"nobody">>
    /\ votes["v1"].outcome = "returned"

\* C19 (as claimed): every vote whose poll record was fetched and whose
\* processed check did not report it processed reaches the reply step - the
\* record-vote call is made and has come back - and the reply configured for
\* the resolved option id, if any, is attempted.
C19_ReplyAttempted ==
    \A e \in VoteEvents :
        LET v == votes[e]
        IN (v.pc = "done" /\ v.body.kind = "record" /\ Len(v.answers) >= 2
                /\ v.answers[2] # "processed") =>
              /\ Len(v.answers) >= 3
              /\ CallsOf(v, {"POST /polls/votes"}) # {}
              /\ ResponseMessage(v.body.data, v.selectedOptionId) # NoMessage =>
                    \E i \in CallsOf(v, {"sendMessage"}) :
                        v.calls[i].arg = ResponseMessage(v.body.data, v.selectedOptionId)

\* C20 (as claimed): the option id that is recorded and used for the reply is
\* the localId of the option of the backend poll record whose name is the
\* selected option's name, and 0 when the record has no such option.
C20_OptionIdFromPollRecord ==
    \A e \in VoteEvents :
        LET v == votes[e]
        IN \A i \in CallsOf(v, {"POST /polls/votes"}) :
              v.body.kind = "record" =>
                 /\ v.calls[i].arg = MatchInPollRecord(v.in, v.body.data)
                 /\ v.selectedOptionId = MatchInPollRecord(v.in, v.body.data)

\* C21: the handler of a vote event never lets an error out, whatever the
\* backend calls and the reply send do, whether an option matches and whether
\* a reply is configured: it ends by returning, or in its own catch.
C21_VoteHandlerNeverThrows ==
    \A e \in VoteEvents :
        /\ votes[e].outcome # "threw"
        /\ votes[e].pc = "done" => votes[e].outcome \in {"returned", "caught"}

\* C21 witness: the record-vote call and the reply send both failed, and the
\* handler returned
C21_Witness ==
    /\ votes["v1"].pc = "done"
    /\ votes["v1"].answers = <<"record", "new", "null", "failed">>
    /\ votes["v1"].outcome = "returned"

\* C22: formatPhoneNumber is idempotent: formatting a formatted phone string
\* gives the same string.
C22_FormatIdempotent ==
    (last.op = "formatPhoneNumber" /\ last.result.applied = 2) =>
        last.result.again = last.result.formatted

\* C22 witness: digits mixed with other characters were cleaned, the suffix
\* was added, and a second pass changed nothing
C22_Witness ==
    /\ last.op = "formatPhoneNumber"
    /\ last.result.applied = 2
    /\ last.result.given = <<"7", ".", "7">>
    /\ last.result.formatted = <<"7", "7">> \o Suffix
    /\ last.result.again = last.result.formatted

\* C23 (as claimed): for every phone string, also one that has '@c.us'
\* elsewhere than at its end, the formatted string ends in '@c.us'.
C23_FormatEndsInSuffix ==
    (last.op = "formatPhoneNumber" /\ last.result.applied >= 1) =>
        EndsWith(last.result.formatted, Suffix)

\* C24: checkNumberExists never raises; it returns false when the state is not
\* CONNECTED, without a call on the underlying client, and when the lookup
\* fails; it returns true only when the client returned a non-null identity.
C24_CheckNumberExistsNeverThrows ==
    last.op = "checkNumberExists" =>
        /\ ~last.threw
        /\ last.result.kind = "bool"
        /\ status # CONNECTED => (last.result.value = FALSE /\ last.calls = <<>>)
        /\ last.result.lookup = "throws" => last.result.value = FALSE
        /\ last.result.value = TRUE =>
                (last.result.lookup = "id" /\ last.calls = <<"getNumberId">>)

\* C24 witness: the lookup failed in state CONNECTED and false was returned
C24_Witness ==
    /\ last.op = "checkNumberExists"
    /\ status = CONNECTED
    /\ ~last.threw
    /\ last.calls = <<"getNumberId">>
    /\ last.result = NumberExists(FALSE, "throws")

\* C25 (as claimed): at every instant at most one underlying client is live:
\* when initialize() creates a client, no client created before and never
\* destroyed is still alive with its handlers attached.
C25_AtMostOneLiveClient ==
    Cardinality({c \in Attempts : Live(c)}) <= 1

\* C26 (as claimed): whenever an initialization attempt has resolved (its
\* `ready` or its `auth_failure` event has been handled, or its startup call
\* has failed) the initialization timeout armed for that attempt is no longer
\* pending.
C26_ResolvedAttemptHasNoTimeout ==
    [][\A c \in Attempts :
          (\/ Ready(c)
           \/ \E msg \in Reasons : AuthFailure(c, msg)
           \/ StartupFails(c)) => initTimer'[c] # "pending"]_vars

\* C27 (as claimed): when the startup call of the underlying client fails
\* during initialize(), the state becomes DISCONNECTED, every observer is
\* notified with the error message, the initialization timeout is cancelled
\* and initialize() does not raise.
C27_StartupFailureHandled ==
    [][\A a \in Attempts :
          StartupFails(a) =>
              /\ status' = DISCONNECTED
              /\ Invoked(last'.notes) = FanOut(statusCallbacks, DISCONNECTED)
              /\ \A i \in 1..Len(last'.notes) : last'.notes[i].data = ErrorData("startup")
              /\ initTimer'[a] # "pending"
              /\ ~last'.threw]_vars

\* the calls of one vote event, in the order of the pipeline
PipelineOrder ==
    <<"GET /polls/M", "GET /polls/votes/M/V", "POST /polls/votes", "sendMessage",
      "client.sendMessage">>

PassedUnmarked(v) ==
    /\ v.pc = "done"
    /\ Len(v.answers) >= 2
    /\ v.answers[1] = "record"
    /\ v.answers[2] \in {"null", "new"}

SessionFrame == <<status, qrCode, initializationTimeout, initTimer, reconnectTimers>>

\* C30: the session state, the stored QR payload and the pending timers are
\* changed only by initialize/reinitialize/disconnect, the lifecycle handlers
\* and the timeout callback: no step of getStatus, of a send operation, of
\* checkNumberExists, of getGroups, of a backend call or of the vote pipeline
\* changes them, whether the step succeeds or fails.
C30_FacadeLeavesSessionAlone ==
    [][SessionFrame' # SessionFrame =>
          ~(\/ Facade
            \/ \E endpoint \in Endpoints, schedule \in SteadySchedules :
                    BackendCall(endpoint, schedule)
            \/ SteadyVotes(VoteEvents))]_vars

\* C30 witness: in state CONNECTED, with the timeout cancelled, a send failed
\* in the client after a vote had been handled whose reply failed; the state
\* is still CONNECTED
C30_Witness ==
    /\ last.op = "sendMessage"
    /\ last.threw
    /\ last.calls = <<"sendMessage">>
    /\ votes["v1"].pc = "done"
    /\ votes["v1"].answers = <<"record", "new", "null", "failed">>
    /\ status = CONNECTED
    /\ initTimer[1] = "cancelled"

\* C31 (as claimed): when two initialization attempts overlap (a second
\* initialize() has started while the startup call of the first is pending),
\* the later completion of the older attempt, success or failure, neither
\* cancels the timeout armed by the newer attempt nor changes the state the
\* newer attempt has set.
C31_OlderCompletionLeavesNewer ==
    [][\A a \in Attempts :
          (/\ a < initializationTimeout
           /\ StartupResolves(a) \/ StartupFails(a)) =>
              /\ initTimer'[initializationTimeout] = initTimer[initializationTimeout]
              /\ status' = status]_vars

Delivered(calls) == {i \in 1..Len(calls) : calls[i].outcome \in {"response", "silent"}}

\* C33 (as claimed): of a record-vote POST, and of a store-poll POST, at most
\* one request reaches the backend, also when a request times out after the
\* backend received it: a POST that was delivered is not sent again.
C33_PostDeliveredOnce ==
    (/\ last.op = "makeHttpCallWithRetry"
     /\ last.calls # <<>>
     /\ last.calls[1].request \in {"POST /polls", "POST /polls/votes"}) =>
        Cardinality(Delivered(last.calls)) <= 1

\* C34 (as claimed): a vote event with an empty selectedOptions is handled
\* like a vote for an unmatched option: once the poll fetch and the processed
\* check have succeeded, option id 0 is resolved, the vote is posted with that
\* id and the reply step is reached; the handler does not abort.
C34_EmptySelectionRecordedAsZero ==
    \A e \in VoteEvents :
        LET v == votes[e]
        IN (/\ v.pc = "done"
            /\ v.in.selected = Undefined
            /\ Len(v.answers) >= 2
            /\ v.answers[1] = "record"
            /\ v.answers[2] = "new") =>
              /\ v.outcome = "returned"
              /\ Len(v.answers) >= 3
              /\ \E i \in CallsOf(v, {"POST /polls/votes"}) : v.calls[i].arg = 0
====
